---------------------------- MODULE Spec2Model ----------------------------
(***************************************************************************)
(* A model of advanced-vector/vector.h: RawMemory<T> (an owner of one raw   *)
(* block) and Vector<T> (the dynamic array built on it).                    *)
(*                                                                          *)
(* The heap is a finite set of block addresses; a block is a sequence of    *)
(* slots, and a slot is raw memory, a live object with a value, or a live   *)
(* moved-from object.  Every public operation of Vector is one action: the  *)
(* whole call, with the exception it may raise drawn from the input `fuel`  *)
(* (the number of fallible steps that succeed before one throws).           *)
(***************************************************************************)
EXTENDS Integers, Sequences, FiniteSets, TLC

\* ------------------------------------------------------------- bounds ---
\* The slots the arrays may hold between two calls (the heap's size).
MaxSlots == 4
\* Element values supplied by the caller are 1 .. MaxVal.
MaxVal == 2

\* ---------------------------------------------------------- the values ---
\* The arrays of the program under analysis.
VecSeq == <<"a", "b">>
Vecs == {VecSeq[i] : i \in 1 .. Len(VecSeq)}
VecIndex(v) == CHOOSE i \in 1 .. Len(VecSeq) : VecSeq[i] = v
\* The array the caller works on; the other one is built from it, assigned
\* to and from it and swapped with it.  (Swap exchanges the two arrays whole,
\* so every state of the pair is reached this way.)
Main == VecSeq[1]
\* Block addresses the allocator hands out: one per array and one for the new
\* block of a growth step or of the temporary of a copy-assignment.
BlockIds == 1 .. (Cardinality(Vecs) + 1)
\* nullptr: the buffer_ of a RawMemory that owns nothing.
Null == 0
\* A value-initialised T (a value the caller can also supply).
DefaultValue == 1
\* The value of an object that has been moved from.
Moved == -1
\* A slot of raw memory holding no object.
Raw == -2

Values == 1 .. MaxVal

\* T's capabilities, as the type traits of Reserve/EmplaceBack read them: a
\* copyable T with a noexcept move, a copyable T whose move may throw, and a
\* move-only T whose move may throw.  (A move-only T with a noexcept move does
\* what the first does, without the calls that copy.)
TypeKinds ==
    {[nothrowMove |-> TRUE, copyable |-> TRUE],
     [nothrowMove |-> FALSE, copyable |-> TRUE],
     [nothrowMove |-> FALSE, copyable |-> FALSE]}

\* A pointer into a block: buffer_ + off.
Ptr(b, i) == [blk |-> b, off |-> i]

\* An argument of push_back/insert: an outside value, or a const reference to
\* the element at a slot of the heap (read when the new element is built).
ArgVal(x) == [kind |-> "val", v |-> x, blk |-> Null, off |-> 0]
ArgRef(p) == [kind |-> "ref", v |-> 0, blk |-> p.blk, off |-> p.off]

VARIABLES
    elemType,   \* T's capabilities (fixed for a run)
    vecs,       \* each Vector: alive, data_.buffer_, data_.capacity_, size_
    heap,       \* each block address: allocated or not, and its slots
    status,     \* "ok", "abort" (an assert failed) or "ub" (undefined behaviour)
    last,       \* the last call: its inputs, its outcome, the state before it
    hist        \* what the caller has pushed onto Main since Vector() (a ghost)

vars == <<elemType, vecs, heap, status, last, hist>>

NoBlock == [live |-> FALSE, slots |-> <<>>]
NoTmp == [buf |-> Null, cap |-> 0, size |-> 0]
EmptyVec == [alive |-> TRUE, buf |-> Null, cap |-> 0, size |-> 0]

\* ------------------------------------------------ the abstract machine ---
\* m: the state a call works on.  fuel counts the fallible steps that still
\* succeed; thrown says an exception is propagating; abort says an assert
\* failed; ub collects undefined behaviour; lost collects objects and blocks
\* that can no longer be destroyed or freed; log lists what the call did; ret
\* is the pointer the call returns.  tmp is the call's local RawMemory or
\* Vector (new_data, rhs_copy, or the member data_ of an array under
\* construction) and stack the call's local T (temp): both are destroyed on
\* every way out of the call, a throw included.
Ev(e, b, i) == [e |-> e, blk |-> b, off |-> i]

Start(f) ==
    [vecs |-> vecs, heap |-> heap, fuel |-> f, thrown |-> FALSE,
     abort |-> FALSE, ub |-> {}, lost |-> {}, log |-> <<>>, ret |-> Ptr(Null, 0),
     tmp |-> NoTmp, stack |-> Raw]

Note(m, e, p) == [m EXCEPT !.log = Append(@, Ev(e, p.blk, p.off))]

\* p denotes a slot of an allocated block.
InBlock(h, p) ==
    /\ p.blk \in BlockIds
    /\ h[p.blk].live
    /\ p.off >= 0
    /\ p.off < Len(h[p.blk].slots)

SlotAt(h, p) == IF InBlock(h, p) THEN h[p.blk].slots[p.off + 1] ELSE Raw

SetSlot(m, p, x) == [m EXCEPT !.heap[p.blk].slots[p.off + 1] = x]

\* The lowest address not allocated.
FreshBlock(h) ==
    LET free == {b \in BlockIds : ~h[b].live}
    IN CHOOSE b \in free : \A c \in free : b <= c

\* RawMemory::RawMemory(size_t) with RawMemory::Allocate: the local tmp gets
\* a block of n slots from operator new, which may throw, or nullptr for n = 0.
RawMemoryOfSize(m, n) ==
    IF n = 0 THEN [m EXCEPT !.tmp = NoTmp]
    ELSE IF m.fuel = 0 THEN [m EXCEPT !.thrown = TRUE]
    ELSE LET b == FreshBlock(m.heap)
         IN Note([m EXCEPT !.heap[b] = [live |-> TRUE, slots |-> [i \in 1 .. n |-> Raw]],
                           !.fuel = @ - 1,
                           !.tmp = [buf |-> b, cap |-> n, size |-> 0]],
                 "alloc", Ptr(b, 0))

\* RawMemory::Deallocate / operator delete (p).  Deleting nullptr does
\* nothing; anything but the start of an allocated block is undefined.  The
\* objects still alive in a freed block are lost.
Deallocate(m, p) ==
    IF p.blk = Null /\ p.off = 0 THEN m
    ELSE IF ~(p.blk \in BlockIds /\ m.heap[p.blk].live /\ p.off = 0)
    THEN Note([m EXCEPT !.ub = @ \cup {"invalid_free"}], "free", p)
    ELSE LET alive == \E i \in 1 .. Len(m.heap[p.blk].slots) :
                          m.heap[p.blk].slots[i] # Raw
         IN Note([m EXCEPT !.heap[p.blk] = NoBlock,
                           !.lost = IF alive THEN @ \cup {"element"} ELSE @],
                 "free", p)

\* Placement new of an object with value x at p.
Construct(m, p, x) ==
    IF ~InBlock(m.heap, p) THEN Note([m EXCEPT !.ub = @ \cup {"bad_address"}], "construct", p)
    ELSE LET m1 == IF SlotAt(m.heap, p) # Raw
                   THEN [m EXCEPT !.lost = @ \cup {"element"}] ELSE m
         IN Note(SetSlot(m1, p, x), "construct", p)

\* The value read through a reference to p; reading raw memory is undefined.
ReadUb(m, p) ==
    IF SlotAt(m.heap, p) = Raw THEN [m EXCEPT !.ub = @ \cup {"read_dead"}] ELSE m

\* std::destroy_at(p).
DestroyAt(m, p) ==
    IF SlotAt(m.heap, p) = Raw
    THEN Note([m EXCEPT !.ub = @ \cup {"destroy_dead"}], "destroy", p)
    ELSE Note(SetSlot(m, p, Raw), "destroy", p)

\* new (p) T(args...): builds the new element from the argument.
ConstructArg(m, p, arg) ==
    IF m.fuel = 0 THEN [m EXCEPT !.thrown = TRUE]
    ELSE LET src == Ptr(arg.blk, arg.off)
             m1 == [m EXCEPT !.fuel = @ - 1]
         IN IF arg.kind = "val" THEN Construct(m1, p, arg.v)
            ELSE Construct(ReadUb(m1, src), p, SlotAt(m1.heap, src))

\* new (p) T(): value-initialisation.
ConstructDefault(m, p) ==
    IF m.fuel = 0 THEN [m EXCEPT !.thrown = TRUE]
    ELSE Construct([m EXCEPT !.fuel = @ - 1], p, DefaultValue)

\* new (dst) T(src): the copy constructor, which may throw.
CopyConstruct(m, dst, src) ==
    IF m.fuel = 0 THEN [m EXCEPT !.thrown = TRUE]
    ELSE LET m1 == ReadUb([m EXCEPT !.fuel = @ - 1], src)
         IN Construct(m1, dst, SlotAt(m1.heap, src))

\* A move may throw unless T's move is noexcept.
MoveMayThrow == ~elemType.nothrowMove

\* new (dst) T(std::move(src)): the move constructor; src is left moved-from.
MoveConstruct(m, dst, src) ==
    IF MoveMayThrow /\ m.fuel = 0 THEN [m EXCEPT !.thrown = TRUE]
    ELSE LET m1 == ReadUb(IF MoveMayThrow THEN [m EXCEPT !.fuel = @ - 1] ELSE m, src)
             x == SlotAt(m1.heap, src)
         IN IF x = Raw THEN m1 ELSE SetSlot(Construct(m1, dst, x), src, Moved)

\* *dst = *src: copy assignment onto a live object.
CopyAssign(m, dst, src) ==
    IF m.fuel = 0 THEN [m EXCEPT !.thrown = TRUE]
    ELSE LET m1 == ReadUb(ReadUb([m EXCEPT !.fuel = @ - 1], src), dst)
         IN IF SlotAt(m1.heap, dst) = Raw \/ SlotAt(m1.heap, src) = Raw THEN m1
            ELSE Note(SetSlot(m1, dst, SlotAt(m1.heap, src)), "assign", dst)

\* *dst = std::move(*src): move assignment onto a live object.
MoveAssign(m, dst, src) ==
    IF MoveMayThrow /\ m.fuel = 0 THEN [m EXCEPT !.thrown = TRUE]
    ELSE LET m0 == IF MoveMayThrow THEN [m EXCEPT !.fuel = @ - 1] ELSE m
             m1 == ReadUb(ReadUb(m0, src), dst)
             x == SlotAt(m1.heap, src)
         IN IF SlotAt(m1.heap, dst) = Raw \/ x = Raw THEN m1
            ELSE Note(SetSlot(SetSlot(m1, dst, x), src, Moved), "assign", dst)


\* ------------------------------------------------- <memory> algorithms ---
At(p, i) == Ptr(p.blk, p.off + i)

\* std::destroy_n(p, n).
RECURSIVE DestroyFrom(_, _, _, _)
DestroyFrom(m, p, i, n) ==
    IF i >= n THEN m ELSE DestroyFrom(DestroyAt(m, At(p, i)), p, i + 1, n)

DestroyN(m, p, n) == DestroyFrom(m, p, 0, n)

\* std::uninitialized_copy_n(src, n, dst): on a throw the objects already
\* built at dst are destroyed and the exception goes on.
RECURSIVE UninitCopyFrom(_, _, _, _, _)
UninitCopyFrom(m, src, dst, i, n) ==
    IF i >= n THEN m
    ELSE LET m1 == CopyConstruct(m, At(dst, i), At(src, i))
         IN IF m1.thrown THEN DestroyN(m1, dst, i)
            ELSE UninitCopyFrom(m1, src, dst, i + 1, n)

UninitCopyN(m, src, n, dst) == UninitCopyFrom(m, src, dst, 0, n)

\* std::uninitialized_move_n(src, n, dst): the same with the move constructor;
\* the sources already moved from stay moved-from.
RECURSIVE UninitMoveFrom(_, _, _, _, _)
UninitMoveFrom(m, src, dst, i, n) ==
    IF i >= n THEN m
    ELSE LET m1 == MoveConstruct(m, At(dst, i), At(src, i))
         IN IF m1.thrown THEN DestroyN(m1, dst, i)
            ELSE UninitMoveFrom(m1, src, dst, i + 1, n)

UninitMoveN(m, src, n, dst) == UninitMoveFrom(m, src, dst, 0, n)

\* std::uninitialized_value_construct_n(p, n).
RECURSIVE UninitValueFrom(_, _, _, _)
UninitValueFrom(m, p, i, n) ==
    IF i >= n THEN m
    ELSE LET m1 == ConstructDefault(m, At(p, i))
         IN IF m1.thrown THEN DestroyN(m1, p, i)
            ELSE UninitValueFrom(m1, p, i + 1, n)

UninitValueConstructN(m, p, n) == UninitValueFrom(m, p, 0, n)

\* std::copy_n(src, n, dst): copy assignment, front to back, nothing undone
\* on a throw.
RECURSIVE CopyFrom(_, _, _, _, _)
CopyFrom(m, src, dst, i, n) ==
    IF i >= n THEN m
    ELSE LET m1 == CopyAssign(m, At(dst, i), At(src, i))
         IN IF m1.thrown THEN m1 ELSE CopyFrom(m1, src, dst, i + 1, n)

CopyN(m, src, n, dst) == CopyFrom(m, src, dst, 0, n)

\* std::move(first, first + n, dst): move assignment, front to back.
RECURSIVE MoveFrom(_, _, _, _, _)
MoveFrom(m, src, dst, i, n) ==
    IF i >= n THEN m
    ELSE LET m1 == MoveAssign(m, At(dst, i), At(src, i))
         IN IF m1.thrown THEN m1 ELSE MoveFrom(m1, src, dst, i + 1, n)

MoveRange(m, src, n, dst) == MoveFrom(m, src, dst, 0, n)

\* std::move_backward(first, first + n, dstEnd): move assignment, back to
\* front, the last source to dstEnd - 1.
RECURSIVE MoveBackFrom(_, _, _, _)
MoveBackFrom(m, src, dstEnd, n) ==
    IF n <= 0 THEN m
    ELSE LET m1 == MoveAssign(m, At(dstEnd, -1), At(src, n - 1))
         IN IF m1.thrown THEN m1 ELSE MoveBackFrom(m1, src, At(dstEnd, -1), n - 1)

MoveBackward(m, src, n, dstEnd) == MoveBackFrom(m, src, dstEnd, n)


\* ------------------------------------------------------------- Vector ---
\* The steps of a call are applied one after the other.  A step does nothing
\* once an exception propagates, except the destructors of the call's locals.
Begin(m, v) == Ptr(m.vecs[v].buf, 0)
End(m, v) == Ptr(m.vecs[v].buf, m.vecs[v].size)
TmpAt(m, i) == Ptr(m.tmp.buf, i)

\* The relocation rule of Reserve, EmplaceBack and InsertAndReallocate:
\* move when T's move is noexcept or T cannot be copied, copy otherwise.
RelocateByMove == elemType.nothrowMove \/ ~elemType.copyable

\* A variant that always moves, whatever T's traits say.
RelocateAlwaysMove(m, src, n, dst) == UninitMoveN(m, src, n, dst)

Relocate(m, src, n, dst) ==
    IF RelocateByMove THEN UninitMoveN(m, src, n, dst) ELSE UninitCopyN(m, src, n, dst)

\* Relocation of v's elements [from, from + n) to the slots of tmp from `to` on.
RelocateToTmp(m, v, from, n, to) ==
    IF m.thrown THEN m ELSE Relocate(m, At(Begin(m, v), from), n, TmpAt(m, to))

\* A variant that grows by one slot.
GrownByOne(size) == size + 1

\* The capacity a full array grows to.
GrownCapacity(size) == IF size = 0 THEN 1 ELSE size * 2

\* new (new_data + i) T(args...).
ConstructInTmp(m, i, arg) ==
    IF m.thrown THEN m ELSE ConstructArg(m, TmpAt(m, i), arg)

\* new (data_ + size_) T(args...).
ConstructAtEnd(m, v, arg) ==
    IF m.thrown THEN m ELSE ConstructArg(m, End(m, v), arg)

\* A variant that leaves the elements of the old block alone.
DestroyNone(m, v) == m

\* std::destroy_n(data_.GetAddress(), size_).
DestroyAll(m, v) ==
    IF m.thrown THEN m ELSE DestroyN(m, Begin(m, v), m.vecs[v].size)

\* data_.Swap(new_data) (RawMemory::Swap): v and tmp exchange block and
\* capacity.
SwapTmp(m, v) ==
    IF m.thrown THEN m
    ELSE Note([m EXCEPT !.vecs[v].buf = m.tmp.buf, !.vecs[v].cap = m.tmp.cap,
                        !.tmp.buf = m.vecs[v].buf, !.tmp.cap = m.vecs[v].cap],
              "swap", TmpAt(m, 0))

\* The destructor of the local tmp: ~Vector destroys its size elements, and
\* ~RawMemory deallocates its block; a tmp that was not built holds nothing.
ReleaseTmp(m) ==
    [Deallocate(DestroyN(m, TmpAt(m, 0), m.tmp.size), TmpAt(m, 0)) EXCEPT !.tmp = NoTmp]

SetSize(m, v, n) ==
    IF m.thrown THEN m ELSE [m EXCEPT !.vecs[v].size = n]

\* Vector::Reserve.
Reserve(m, v, n) ==
    IF m.thrown \/ n <= m.vecs[v].cap THEN m
    ELSE ReleaseTmp(SwapTmp(DestroyAll(
             RelocateToTmp(RawMemoryOfSize(m, n), v, 0, m.vecs[v].size, 0), v), v))

\* A variant that fills from the first slot: std::uninitialized_value_
\* construct_n(data_.GetAddress(), new_size - size_).
ValueFillFromBegin(m, v, n) ==
    IF m.thrown THEN m ELSE UninitValueConstructN(m, Begin(m, v), n - m.vecs[v].size)

\* std::uninitialized_value_construct_n(data_ + size_, new_size - size_).
ValueFill(m, v, n) ==
    IF m.thrown THEN m ELSE UninitValueConstructN(m, End(m, v), n - m.vecs[v].size)

\* Vector::Resize.
Resize(m, v, n) ==
    IF n <= m.vecs[v].size
    THEN SetSize(DestroyN(m, At(Begin(m, v), n), m.vecs[v].size - n), v, n)
    ELSE SetSize(ValueFill(Reserve(m, v, n), v, n), v, n)

\* A variant that counts first: return data_[++size_].
ReturnPastNewBack(m, v) ==
    IF m.thrown THEN m
    ELSE [m EXCEPT !.vecs[v].size = @ + 1, !.ret = At(End(m, v), 1)]

\* return data_[size_++].
ReturnNewBack(m, v) ==
    IF m.thrown THEN m ELSE [m EXCEPT !.vecs[v].size = @ + 1, !.ret = End(m, v)]

\* A variant that takes a new block on every call, full or not.
EmplaceBackAlwaysGrowing(m, v, arg) ==
    LET size == m.vecs[v].size
    IN ReturnNewBack(ReleaseTmp(SwapTmp(DestroyAll(
           RelocateToTmp(
               ConstructInTmp(RawMemoryOfSize(m, GrownCapacity(size)), size, arg),
               v, 0, size, 0), v), v)), v)

\* Vector::EmplaceBack (PushBack forwards to it).
EmplaceBack(m, v, arg) ==
    LET size == m.vecs[v].size
    IN IF size = m.vecs[v].cap
       THEN ReturnNewBack(ReleaseTmp(SwapTmp(DestroyAll(
                RelocateToTmp(
                    ConstructInTmp(RawMemoryOfSize(m, GrownCapacity(size)), size, arg),
                    v, 0, size, 0), v), v)), v)
       ELSE ReturnNewBack(ConstructAtEnd(m, v, arg), v)

\* A variant that only counts down: --size_ without std::destroy_at.
PopBackKeepingObject(m, v) ==
    IF m.vecs[v].size = 0 THEN [m EXCEPT !.abort = TRUE]
    ELSE [m EXCEPT !.vecs[v].size = @ - 1]

\* Vector::PopBack.
PopBack(m, v) ==
    IF m.vecs[v].size = 0 THEN [m EXCEPT !.abort = TRUE]
    ELSE [DestroyAt(m, At(End(m, v), -1)) EXCEPT !.vecs[v].size = @ - 1]

\* A variant that relocates the elements first and constructs the new element
\* in the gap afterwards.
InsertAndReallocateElementLast(m, v, offset, arg) ==
    LET size == m.vecs[v].size
    IN ReleaseTmp(SwapTmp(DestroyAll(
           ConstructInTmp(
               RelocateToTmp(
                   RelocateToTmp(RawMemoryOfSize(m, GrownCapacity(size)), v, 0, offset, 0),
                   v, offset, size - offset, offset + 1),
               offset, arg), v), v))

\* Vector::InsertAndReallocate.
InsertAndReallocate(m, v, offset, arg) ==
    LET size == m.vecs[v].size
    IN ReleaseTmp(SwapTmp(DestroyAll(
           RelocateToTmp(
               RelocateToTmp(
                   ConstructInTmp(RawMemoryOfSize(m, GrownCapacity(size)), offset, arg),
                   v, 0, offset, 0),
               v, offset, size - offset, offset + 1), v), v))

\* The local `temp` of InsertWithoutReallocating lives on the stack.
StackTemp == Ptr(Null, 1)

\* T temp(std::forward<Args>(args)...).
BuildTemp(m, arg) ==
    IF m.fuel = 0 THEN [m EXCEPT !.thrown = TRUE]
    ELSE LET src == Ptr(arg.blk, arg.off)
             m1 == IF arg.kind = "val" THEN m ELSE ReadUb(m, src)
         IN Note([m1 EXCEPT !.fuel = @ - 1,
                            !.stack = IF arg.kind = "val" THEN arg.v
                                      ELSE SlotAt(m.heap, src)],
                 "construct", StackTemp)

\* new (end()) T(std::forward<T>(data_[size_ - 1])).
MoveLastToEnd(m, v) ==
    IF m.thrown THEN m ELSE MoveConstruct(m, End(m, v), At(End(m, v), -1))

\* A variant that shifts front to back: std::move(begin() + offset,
\* end() - 1, begin() + offset + 1).
ShiftRightForward(m, v, offset) ==
    IF m.thrown THEN m
    ELSE MoveRange(m, At(Begin(m, v), offset), m.vecs[v].size - 1 - offset,
                   At(Begin(m, v), offset + 1))

\* std::move_backward(begin() + offset, end() - 1, end()).
ShiftRight(m, v, offset) ==
    IF m.thrown THEN m
    ELSE MoveBackward(m, At(Begin(m, v), offset), m.vecs[v].size - 1 - offset, End(m, v))

\* *(begin() + offset) = std::forward<T>(temp).
AssignTemp(m, v, offset) ==
    IF m.thrown THEN m
    ELSE IF MoveMayThrow /\ m.fuel = 0 THEN [m EXCEPT !.thrown = TRUE]
    ELSE Note(SetSlot([m EXCEPT !.fuel = IF MoveMayThrow THEN @ - 1 ELSE @,
                                !.stack = Moved],
                      At(Begin(m, v), offset), m.stack),
              "assign", At(Begin(m, v), offset))

\* The destructor of temp, if temp was built.
DestroyTemp(m) ==
    IF m.stack = Raw THEN m ELSE Note([m EXCEPT !.stack = Raw], "destroy", StackTemp)

\* A variant that builds the new element from the argument only after the
\* shift, without the local temp made first.
InsertBuiltAfterShift(m, v, offset, arg) ==
    IF offset # m.vecs[v].size
    THEN DestroyTemp(AssignTemp(BuildTemp(ShiftRight(MoveLastToEnd(m, v), v, offset), arg),
                                v, offset))
    ELSE ConstructAtEnd(m, v, arg)

\* Vector::InsertWithoutReallocating.
InsertWithoutReallocating(m, v, offset, arg) ==
    IF offset # m.vecs[v].size
    THEN DestroyTemp(AssignTemp(ShiftRight(MoveLastToEnd(BuildTemp(m, arg), v), v, offset),
                                v, offset))
    ELSE ConstructAtEnd(m, v, arg)

\* The handler of Emplace around the in-place path: operator delete (end()),
\* then throw.
CatchDeleteEnd(m, v) ==
    IF m.thrown THEN Deallocate(m, End(m, v)) ELSE m

\* ++size_; return begin() + offset.
ReturnInserted(m, v, offset) ==
    IF m.thrown THEN m
    ELSE [m EXCEPT !.vecs[v].size = @ + 1, !.ret = At(Begin(m, v), offset)]

\* Vector::Emplace (Insert forwards to it).
Emplace(m, v, offset, arg) ==
    IF offset > m.vecs[v].size THEN [m EXCEPT !.abort = TRUE]
    ELSE IF m.vecs[v].size = m.vecs[v].cap
    THEN ReturnInserted(InsertAndReallocate(m, v, offset, arg), v, offset)
    ELSE ReturnInserted(CatchDeleteEnd(InsertWithoutReallocating(m, v, offset, arg), v),
                        v, offset)

\* A variant that destroys the erased element before the shift, which then
\* assigns onto raw memory.
ShiftLeftOntoDestroyed(m, v, offset) ==
    MoveRange(DestroyAt(m, At(Begin(m, v), offset)),
              At(Begin(m, v), offset + 1), m.vecs[v].size - offset - 1,
              At(Begin(m, v), offset))

\* std::move(begin() + offset + 1, end(), begin() + offset).
ShiftLeft(m, v, offset) ==
    MoveRange(m, At(Begin(m, v), offset + 1), m.vecs[v].size - offset - 1,
              At(Begin(m, v), offset))

\* std::destroy_at(cend() - 1); --size_; return begin() + offset.
DropLast(m, v, offset) ==
    IF m.thrown THEN m
    ELSE [DestroyAt(m, At(End(m, v), -1)) EXCEPT !.vecs[v].size = @ - 1,
                                                 !.ret = At(Begin(m, v), offset)]

\* Vector::Erase.  Its assert lets pos == cend() through; the range handed to
\* std::move is then [end + 1, end), which is undefined.
Erase(m, v, offset) ==
    IF offset > m.vecs[v].size THEN [m EXCEPT !.abort = TRUE]
    ELSE IF offset = m.vecs[v].size THEN [m EXCEPT !.ub = @ \cup {"bad_range"}]
    ELSE DropLast(ShiftLeft(m, v, offset), v, offset)

\* The array v under construction takes the block and the size of tmp.
AdoptTmp(m, v) ==
    IF m.thrown THEN m
    ELSE [m EXCEPT !.vecs[v] = [alive |-> TRUE, buf |-> m.tmp.buf, cap |-> m.tmp.cap,
                                size |-> m.tmp.size],
                   !.tmp = NoTmp]

\* std::uninitialized_value_construct_n(data_.GetAddress(), size).
ValueFillTmp(m, n) ==
    IF m.thrown THEN m
    ELSE LET r == UninitValueConstructN(m, TmpAt(m, 0), n)
         IN IF r.thrown THEN r ELSE [r EXCEPT !.tmp.size = n]

\* std::uninitialized_copy_n(other.data_.GetAddress(), other.size_,
\* data_.GetAddress()).
CopyToTmp(m, w) ==
    IF m.thrown THEN m
    ELSE LET r == UninitCopyN(m, Begin(m, w), m.vecs[w].size, TmpAt(m, 0))
         IN IF r.thrown THEN r ELSE [r EXCEPT !.tmp.size = m.vecs[w].size]

\* Vector::Vector(size_t): data_(size), then size value-initialised elements;
\* on a throw the member data_ is destroyed, which frees the block.
VectorOfSize(m, v, n) ==
    ReleaseTmp(AdoptTmp(ValueFillTmp(RawMemoryOfSize(m, n), n), v))

\* Vector::Vector(const Vector&): a block of other.size_ slots, filled by copy.
VectorCopy(m, v, w) ==
    ReleaseTmp(AdoptTmp(CopyToTmp(RawMemoryOfSize(m, m.vecs[w].size), w), v))

\* A variant that copies other's members and leaves other as it was.
VectorMoveKeepingSource(m, v, w) ==
    [m EXCEPT !.vecs[v] = [m.vecs[w] EXCEPT !.alive = TRUE]]

\* Vector::Vector(Vector&&): takes other's block and size, leaves other empty.
VectorMove(m, v, w) ==
    [m EXCEPT !.vecs[v] = [m.vecs[w] EXCEPT !.alive = TRUE], !.vecs[w] = EmptyVec]

\* RawMemory::operator=(RawMemory&&): buffer_ and capacity_ are overwritten
\* with rhs's, and rhs is left null; the block held before is not deallocated.
RawMemoryMoveAssign(m, v, w) ==
    IF v = w THEN m
    ELSE [m EXCEPT !.vecs[v].buf = m.vecs[w].buf, !.vecs[v].cap = m.vecs[w].cap,
                   !.vecs[w].buf = Null, !.vecs[w].cap = 0]

\* A variant without the test this != &rhs.
VectorMoveAssignUnchecked(m, v, w) ==
    [RawMemoryMoveAssign(m, v, w) EXCEPT !.vecs[v].size = m.vecs[w].size,
                                         !.vecs[w].size = 0]

\* Vector::operator=(Vector&&).
VectorMoveAssign(m, v, w) ==
    IF v = w THEN m
    ELSE [RawMemoryMoveAssign(m, v, w) EXCEPT !.vecs[v].size = m.vecs[w].size,
                                              !.vecs[w].size = 0]

\* Vector::Swap.
VectorSwap(m, v, w) ==
    IF v = w THEN m
    ELSE [m EXCEPT !.vecs[v] = m.vecs[w], !.vecs[w] = m.vecs[v]]

\* Swap(rhs_copy): v and the local Vector tmp exchange block, capacity and size.
SwapVectorTmp(m, v) ==
    IF m.thrown THEN m
    ELSE Note([m EXCEPT !.vecs[v].buf = m.tmp.buf, !.vecs[v].cap = m.tmp.cap,
                        !.vecs[v].size = m.tmp.size,
                        !.tmp = [buf |-> m.vecs[v].buf, cap |-> m.vecs[v].cap,
                                 size |-> m.vecs[v].size]],
              "swap", TmpAt(m, 0))

\* std::copy_n(rhs.data_.GetAddress(), min, data_.GetAddress()).
AssignCommonPrefix(m, v, w) ==
    LET size == m.vecs[v].size
        rsize == m.vecs[w].size
    IN CopyN(m, Begin(m, w), IF size <= rsize THEN size ELSE rsize, Begin(m, v))

\* A variant that forgets the surplus of rhs.
DestroyRestOnly(m, v, w) ==
    LET size == m.vecs[v].size
        rsize == m.vecs[w].size
    IN IF m.thrown \/ size < rsize THEN m
       ELSE DestroyN(m, At(Begin(m, v), rsize), size - rsize)

\* The rest of the in-place branch: the surplus of v is destroyed, or the
\* surplus of rhs is copy-constructed behind v's elements.
DestroyOrCopyRest(m, v, w) ==
    LET size == m.vecs[v].size
        rsize == m.vecs[w].size
    IN IF m.thrown THEN m
       ELSE IF size >= rsize THEN DestroyN(m, At(Begin(m, v), rsize), size - rsize)
       ELSE UninitCopyN(m, At(Begin(m, w), size), rsize - size, End(m, v))

\* Vector::operator=(const Vector&).  A source larger than the capacity is
\* copied into the local rhs_copy, which is swapped in and destroyed with the
\* old contents; otherwise the elements are assigned in place.
VectorCopyAssign(m, v, w) ==
    IF v = w THEN m
    ELSE IF m.vecs[w].size > m.vecs[v].cap
    THEN SetSize(ReleaseTmp(SwapVectorTmp(
             CopyToTmp(RawMemoryOfSize(m, m.vecs[w].size), w), v)), v, m.vecs[w].size)
    ELSE SetSize(DestroyOrCopyRest(AssignCommonPrefix(m, v, w), v, w), v, m.vecs[w].size)

\* Vector::~Vector, then ~RawMemory of the member data_.
VectorDestroy(m, v) ==
    [Deallocate(DestroyAll(m, v), Begin(m, v))
        EXCEPT !.vecs[v] = [alive |-> FALSE, buf |-> Null, cap |-> 0, size |-> 0]]

\* Vector::operator[]: RawMemory::operator[] asserts index < capacity_.
IndexOp(m, v, i) ==
    IF i >= m.vecs[v].cap THEN [m EXCEPT !.abort = TRUE]
    ELSE [m EXCEPT !.ret = At(Begin(m, v), i)]

\* ------------------------------------------------------------ the calls ---
\* No call of the model has more than MaxSlots + 1 fallible steps: with this
\* much fuel nothing throws.
NoThrow == MaxSlots + 2

\* The fuels that make a difference to a call: m is the call run with
\* NoThrow, which shows how many fallible steps it has; with fewer the call
\* throws at that step, with as many it ends as m did.
FuelsOf(m) == 0 .. (NoThrow - m.fuel)

\* The same for a call that takes an argument; the calls whose argument is a
\* reference into the array are followed only where nothing throws.
FuelsFor(arg, m) == IF arg.kind = "ref" THEN {NoThrow} ELSE FuelsOf(m)

RECURSIVE SlotsIn(_, _)
SlotsIn(h, S) ==
    IF S = {} THEN 0
    ELSE LET b == CHOOSE x \in S : TRUE
         IN Len(h[b].slots) + SlotsIn(h, S \ {b})

NoArg == ArgVal(0)

\* The blocks no living array holds once a call is over: nothing can free
\* them or destroy the objects in them any more.
Orphans(m) ==
    {b \in BlockIds : m.heap[b].live /\ \A x \in Vecs : ~(m.vecs[x].alive /\ m.vecs[x].buf = b)}

HoldsObject(blk) == \E i \in 1 .. Len(blk.slots) : blk.slots[i] # Raw

\* A living array left holding a block that has been freed.
Dangling(m) ==
    \E x \in Vecs : m.vecs[x].alive /\ m.vecs[x].buf # Null /\ ~m.heap[m.vecs[x].buf].live

\* The caller's record of Main while all it has done to Main since Vector()
\* is PushBack and PopBack: the values pushed and not yet popped, in push
\* order, and the number of pushes while no pop has come between (-1 after a
\* pop).  Any other call that writes to Main ends the record, and so does a
\* push that throws.
NoHist == [valid |-> FALSE, pushed |-> <<>>, streak |-> -1]
NewHist == [valid |-> TRUE, pushed |-> <<>>, streak |-> 0]

\* The value the caller passes, as it is when the call starts.
ValueOf(h, arg) == IF arg.kind = "val" THEN arg.v ELSE SlotAt(h, Ptr(arg.blk, arg.off))

WritesMain(op, v, w) ==
    \/ v = Main /\ op \notin {"PushBack", "PopBack", "Index"}
    \/ w = Main /\ op \in {"VectorMove", "MoveAssign", "Swap"}

HistAfter(m, op, v, w, arg) ==
    IF op = "Vector" /\ v = Main THEN NewHist
    ELSE IF WritesMain(op, v, w) THEN NoHist
    ELSE IF ~hist.valid \/ m.abort THEN hist
    ELSE IF m.thrown THEN (IF v = Main THEN NoHist ELSE hist)
    ELSE IF op = "PushBack"
    THEN [hist EXCEPT !.pushed = Append(@, ValueOf(heap, arg)),
                      !.streak = IF @ >= 0 THEN @ + 1 ELSE @]
    ELSE IF op = "PopBack"
    THEN [hist EXCEPT !.pushed = SubSeq(@, 1, Len(@) - 1), !.streak = -1]
    ELSE hist

\* The end of a call: the machine's state becomes the program's.  An assert
\* that failed or undefined behaviour ends the run: no state after it is
\* defined.
Finish(m, op, v, w, k, arg) ==
    LET orphans == Orphans(m)
        lost == m.lost \cup (IF orphans # {} THEN {"block"} ELSE {})
                       \cup (IF \E b \in orphans : HoldsObject(m.heap[b])
                             THEN {"element"} ELSE {})
        ub == m.ub \cup (IF Dangling(m) THEN {"dangling_block"} ELSE {})
    IN /\ vecs' = m.vecs
       /\ heap' = [b \in BlockIds |-> IF b \in orphans THEN NoBlock ELSE m.heap[b]]
       /\ status' = IF m.abort THEN "abort" ELSE IF ub # {} THEN "ub" ELSE "ok"
       /\ last' = [op |-> op, vec |-> v, other |-> w, k |-> k, arg |-> arg,
                   failed |-> m.thrown, ub |-> ub, lost |-> lost, log |-> m.log,
                   ret |-> m.ret, pre |-> [vecs |-> vecs, heap |-> heap]]
       /\ hist' = HistAfter(m, op, v, w, arg)
       /\ SlotsIn(heap', BlockIds) <= MaxSlots
       /\ UNCHANGED elemType

\* The caller is between two calls.
Idle == status = "ok" /\ last.op = "Idle"

Alive(v) == Idle /\ vecs[v].alive
Unborn(v) == Idle /\ ~vecs[v].alive

\* What a caller may pass to push_back/insert on v: a value of its own or,
\* when T can be copied, a reference to an element of v.
Args(v) ==
    {ArgVal(x) : x \in Values}
        \cup (IF elemType.copyable
              THEN {ArgRef(Ptr(vecs[v].buf, j)) : j \in 0 .. vecs[v].size - 1}
              ELSE {})

\* Vector().
CallDefault ==
    \E v \in Vecs :
        /\ Unborn(v)
        /\ Finish([Start(NoThrow) EXCEPT !.vecs[v] = EmptyVec], "Vector", v, v, 0, NoArg)

\* Vector(n).
CallVectorOfSize ==
    \E v \in Vecs, n \in 0 .. MaxSlots :
        /\ Unborn(v)
        /\ \E f \in FuelsOf(VectorOfSize(Start(NoThrow), v, n)) :
               Finish(VectorOfSize(Start(f), v, n), "VectorOfSize", v, v, n, NoArg)

\* Vector v(w).
CallVectorCopy ==
    \E v \in Vecs, w \in Vecs :
        /\ Unborn(v) /\ Alive(w) /\ elemType.copyable
        /\ \E f \in FuelsOf(VectorCopy(Start(NoThrow), v, w)) :
               Finish(VectorCopy(Start(f), v, w), "VectorCopy", v, w, 0, NoArg)

\* Vector v(std::move(w)).
CallVectorMove ==
    \E v \in Vecs, w \in Vecs :
        /\ Unborn(v) /\ Alive(w)
        /\ Finish(VectorMove(Start(NoThrow), v, w), "VectorMove", v, w, 0, NoArg)

\* v = w (v = v included).
CallCopyAssign ==
    \E v \in Vecs, w \in Vecs :
        /\ Alive(v) /\ Alive(w) /\ elemType.copyable
        /\ \E f \in FuelsOf(VectorCopyAssign(Start(NoThrow), v, w)) :
               Finish(VectorCopyAssign(Start(f), v, w), "CopyAssign", v, w, 0, NoArg)

\* v = std::move(w) (v = std::move(v) included).
CallMoveAssign ==
    \E v \in Vecs, w \in Vecs :
        /\ Alive(v) /\ Alive(w)
        /\ Finish(VectorMoveAssign(Start(NoThrow), v, w), "MoveAssign", v, w, 0, NoArg)

\* v.Swap(w) (v.Swap(v) included).
CallSwap ==
    \E v \in Vecs, w \in Vecs :
        /\ Alive(v) /\ Alive(w)
        /\ Finish(VectorSwap(Start(NoThrow), v, w), "Swap", v, w, 0, NoArg)

\* The end of v's lifetime.
CallDestroy ==
    \E v \in Vecs :
        /\ Alive(v)
        /\ Finish(VectorDestroy(Start(NoThrow), v), "Destroy", v, v, 0, NoArg)

\* Main.Reserve(n).
CallReserve ==
    /\ Alive(Main)
    /\ \E n \in 0 .. MaxSlots : \E f \in FuelsOf(Reserve(Start(NoThrow), Main, n)) :
           Finish(Reserve(Start(f), Main, n), "Reserve", Main, Main, n, NoArg)

\* Main.Resize(n).
CallResize ==
    /\ Alive(Main)
    /\ \E n \in 0 .. MaxSlots : \E f \in FuelsOf(Resize(Start(NoThrow), Main, n)) :
           Finish(Resize(Start(f), Main, n), "Resize", Main, Main, n, NoArg)

\* Main.PushBack(arg) / Main.EmplaceBack(arg).
CallPushBack ==
    /\ Alive(Main)
    /\ \E arg \in Args(Main) :
           \E f \in FuelsFor(arg, EmplaceBack(Start(NoThrow), Main, arg)) :
           Finish(EmplaceBack(Start(f), Main, arg), "PushBack", Main, Main,
                  vecs[Main].size, arg)

\* Main.PopBack().
CallPopBack ==
    /\ Alive(Main)
    /\ Finish(PopBack(Start(NoThrow), Main), "PopBack", Main, Main, 0, NoArg)

\* Main.Insert(begin() + k, arg) / Main.Emplace(begin() + k, arg); k = size + 1
\* is the first position past end().
CallInsert ==
    /\ Alive(Main)
    /\ \E k \in 0 .. vecs[Main].size + 1 : \E arg \in Args(Main) :
           \E f \in FuelsFor(arg, Emplace(Start(NoThrow), Main, k, arg)) :
               Finish(Emplace(Start(f), Main, k, arg), "Insert", Main, Main, k, arg)

\* Main.Erase(begin() + k).
CallErase ==
    /\ Alive(Main)
    /\ \E k \in 0 .. vecs[Main].size + 1 :
           \E f \in FuelsOf(Erase(Start(NoThrow), Main, k)) :
               Finish(Erase(Start(f), Main, k), "Erase", Main, Main, k, NoArg)

\* Main[i]; i = capacity is the first index past the block.
CallIndex ==
    /\ Alive(Main)
    /\ \E i \in 0 .. vecs[Main].cap :
           Finish(IndexOp(Start(NoThrow), Main, i), "Index", Main, Main, i, NoArg)

\* The record of no call.
IdleLast ==
    [op |-> "Idle", vec |-> "a", other |-> "a", k |-> 0, arg |-> NoArg,
     failed |-> FALSE, ub |-> {}, lost |-> {}, log |-> <<>>,
     ret |-> Ptr(Null, 0), pre |-> [vecs |-> [v \in Vecs |-> EmptyVec],
                                    heap |-> [b \in BlockIds |-> NoBlock]]]

\* The arrays that hold a block, and the rank of v among them.
Holders == {x \in Vecs : vecs[x].alive /\ vecs[x].buf # Null}
Rank(v) == Cardinality({x \in Holders : VecIndex(x) <= VecIndex(v)})

\* The call has returned or thrown to the caller, which goes on: the record
\* of the call is dropped.  No pointer outlives the record, and the program
\* never reads an address's value, so the blocks are renamed, in the order of
\* the arrays holding them, to the lowest addresses: states that differ only
\* in the names of their blocks are one state.
Return ==
    /\ status = "ok"
    /\ last.op # "Idle"
    /\ last' = IdleLast
    /\ vecs' = [v \in Vecs |-> IF v \in Holders THEN [vecs[v] EXCEPT !.buf = Rank(v)]
                                ELSE vecs[v]]
    /\ heap' = [b \in BlockIds |->
                 IF \E v \in Holders : Rank(v) = b
                 THEN heap[vecs[CHOOSE v \in Holders : Rank(v) = b].buf]
                 ELSE NoBlock]
    /\ UNCHANGED <<elemType, status, hist>>

Init ==
    /\ elemType \in TypeKinds
    /\ vecs = [v \in Vecs |-> EmptyVec]
    /\ heap = [b \in BlockIds |-> NoBlock]
    /\ status = "ok"
    /\ last = IdleLast
    /\ hist = NewHist

Next ==
    \/ CallDefault
    \/ CallVectorOfSize
    \/ CallVectorCopy
    \/ CallVectorMove
    \/ CallCopyAssign
    \/ CallMoveAssign
    \/ CallSwap
    \/ CallDestroy
    \/ CallReserve
    \/ CallResize
    \/ CallPushBack
    \/ CallPopBack
    \/ CallInsert
    \/ CallErase
    \/ CallIndex
    \/ Return

Spec == Init /\ [][Next]_vars

\* ----------------------------------------------------- what a caller sees ---
\* The elements operator[] yields for the indices below Size(), of the array v
\* as the state (vs, h) has it.
Elems(vs, h, v) == [i \in 1 .. vs[v].size |-> SlotAt(h, Ptr(vs[v].buf, i - 1))]
Now(v) == Elems(vecs, heap, v)
Before(v) == Elems(last.pre.vecs, last.pre.heap, v)
SizeBefore(v) == last.pre.vecs[v].size
CapBefore(v) == last.pre.vecs[v].cap

\* The last call was op and it returned (it did not throw).
Returned(op) == last.op = op /\ ~last.failed

\* The events e of the last call.
Count(e) == Cardinality({i \in 1 .. Len(last.log) : last.log[i].e = e})

\* s with x put in front of its element k + 1, and s without its element k + 1.
InsertAt(s, k, x) == SubSeq(s, 1, k) \o <<x>> \o SubSeq(s, k + 1, Len(s))
RemoveAt(s, k) == SubSeq(s, 1, k) \o SubSeq(s, k + 2, Len(s))

\* -------------------------------------------------------------- claims ---
\* C1: while the caller has only pushed onto and popped from an array that
\* started empty, the array holds exactly the pushed values not yet popped, in
\* push order (so its size is pushes minus pops); every push that returns
\* makes the size one larger, appends the value and returns a reference to
\* the slot at the old size, whether it reallocated or not; every pop of a
\* non-empty array removes the last element only.
C1_PushPopSequence ==
    /\ hist.valid => Now(Main) = hist.pushed
    /\ Returned("PushBack") =>
           /\ status = "ok"
           /\ vecs[Main].size = SizeBefore(Main) + 1
           /\ Now(Main) = Append(Before(Main), ValueOf(last.pre.heap, last.arg))
           /\ last.ret = Ptr(vecs[Main].buf, SizeBefore(Main))
    /\ (last.op = "PopBack" /\ SizeBefore(Main) > 0) =>
           /\ status = "ok"
           /\ ~last.failed
           /\ Now(Main) = SubSeq(Before(Main), 1, SizeBefore(Main) - 1)

\* Three pushes onto the empty array with a pop before the last: the last
\* push found the array full and reallocated.
C1_Witness ==
    /\ Returned("PushBack")
    /\ hist.valid
    /\ hist.streak = -1
    /\ Len(hist.pushed) = 2
    /\ SizeBefore(Main) = CapBefore(Main)
    /\ hist.pushed[1] # hist.pushed[2]

\* C2: an insert at offset k <= n into an array of size n that returns leaves
\* size n + 1, the value at index k, the former [0, k) in place and the former
\* [k, n) one slot to the right, and returns begin() + k of the storage the
\* array then has; on the reallocation path and on the in-place path, k = n
\* included.
C2_InsertAtOffset ==
    (Returned("Insert") /\ last.k <= SizeBefore(Main)) =>
        /\ status = "ok"
        /\ vecs[Main].size = SizeBefore(Main) + 1
        /\ Now(Main) = InsertAt(Before(Main), last.k, ValueOf(last.pre.heap, last.arg))
        /\ last.ret = Ptr(vecs[Main].buf, last.k)

\* An insert in place, in front of two elements that differ, with one behind.
C2_Witness ==
    /\ Returned("Insert")
    /\ SizeBefore(Main) = 3
    /\ CapBefore(Main) = 4
    /\ last.k = 1
    /\ Before(Main)[2] # Before(Main)[3]
    /\ status = "ok"

\* C3: an erase at offset k < n of an array of size n >= 1 that returns leaves
\* size n - 1, the former [0, k) in place and the former (k, n) one slot to the
\* left; one object is destroyed, and the block and the capacity stay.
C3_EraseAtOffset ==
    (Returned("Erase") /\ last.k < SizeBefore(Main)) =>
        /\ status = "ok"
        /\ vecs[Main].size = SizeBefore(Main) - 1
        /\ Now(Main) = RemoveAt(Before(Main), last.k)
        /\ Count("destroy") = 1
        /\ vecs[Main].cap = CapBefore(Main)
        /\ vecs[Main].buf = last.pre.vecs[Main].buf
        /\ last.ret = Ptr(vecs[Main].buf, last.k)

\* An erase in the middle of three elements, the two that stay being different.
C3_Witness ==
    /\ Returned("Erase")
    /\ SizeBefore(Main) = 3
    /\ last.k = 1
    /\ Before(Main)[1] # Before(Main)[3]
    /\ status = "ok"

\* The calls that grow the block: Reserve, and PushBack or Insert on a full
\* array.
GrowthCall ==
    \/ last.op = "Reserve"
    \/ last.op \in {"PushBack", "Insert"}
           /\ SizeBefore(Main) = CapBefore(Main)
           /\ last.k <= SizeBefore(Main)

\* The arrays and the heap are what they were before the last call.
Unchanged == vecs = last.pre.vecs /\ heap = last.pre.heap

\* A Reserve that threw after its allocation threw in the relocation.
RelocationFailed == last.op = "Reserve" /\ last.failed /\ Count("alloc") = 1

\* C4 (as the code has it): when T's move cannot throw or T can be copied, a
\* growth call that throws (in the allocation, in the construction of the new
\* element or in the relocation) leaves every array's size, capacity and block
\* and all element values as they were, and a relocation that throws is one
\* done by copy-construction.
C4_StrongGuarantee ==
    (GrowthCall /\ last.failed /\ (elemType.nothrowMove \/ elemType.copyable)) =>
        /\ status = "ok"
        /\ Unchanged
        /\ RelocationFailed => ~RelocateByMove

\* A Reserve whose second copy throws after the first was made.
C4_Witness ==
    /\ RelocationFailed
    /\ elemType.copyable
    /\ SizeBefore(Main) >= 2
    /\ Count("construct") = 1
    /\ Count("destroy") = 1

\* C4 (as the specification has it): the same for every element type.
C4_StrongGuaranteeEveryType ==
    (GrowthCall /\ last.failed) =>
        /\ status = "ok"
        /\ Unchanged
        /\ RelocationFailed => ~RelocateByMove

\* C5: a call that returns loses nothing: no object is left that can no longer
\* be destroyed, and no block that can no longer be freed (so that, once every
\* array is destroyed, every object has been destroyed and every block freed).
C5_NothingLost ==
    (last.op # "Idle" /\ ~last.failed /\ status = "ok") => last.lost = {}

\* C6: b = a for distinct arrays leaves b with a's elements in order and a as
\* it was, whether a's size exceeds b's capacity, is at most b's size, or lies
\* between b's size and capacity; the two then hold different blocks, and a
\* call made on one array alone leaves the other array and its elements as
\* they were.
C6_CopyAssign ==
    /\ (Returned("CopyAssign") /\ last.vec # last.other) =>
           /\ status = "ok"
           /\ Now(last.vec) = Before(last.other)
           /\ Now(last.other) = Before(last.other)
           /\ vecs[last.other] = last.pre.vecs[last.other]
           /\ vecs[last.vec].buf = Null \/ vecs[last.vec].buf # vecs[last.other].buf
    /\ (last.op # "Idle" /\ last.vec = last.other /\ status # "ub") =>
           \A x \in Vecs \ {last.vec} :
               vecs[x] = last.pre.vecs[x] /\ Now(x) = Before(x)

\* b = a where b has one element and room for the two that a has.
C6_Witness ==
    /\ Returned("CopyAssign")
    /\ last.vec # last.other
    /\ SizeBefore(last.vec) = 1
    /\ CapBefore(last.vec) = 2
    /\ SizeBefore(last.other) = 2
    /\ Before(last.other)[1] # Before(last.other)[2]

\* C7: b = std::move(a) for distinct arrays, and Vector b(std::move(a)), leave
\* a empty (size 0, capacity 0, no block) and b with a's former size, capacity,
\* block and elements; no other array holds that block.
C7_MoveTransfers ==
    ((Returned("MoveAssign") \/ Returned("VectorMove")) /\ last.vec # last.other) =>
        /\ status = "ok"
        /\ vecs[last.other] = EmptyVec
        /\ vecs[last.vec].size = SizeBefore(last.other)
        /\ vecs[last.vec].cap = CapBefore(last.other)
        /\ vecs[last.vec].buf = last.pre.vecs[last.other].buf
        /\ Now(last.vec) = Before(last.other)
        /\ \A x \in Vecs \ {last.vec} : vecs[x].buf = Null \/ vecs[x].buf # vecs[last.vec].buf

\* A move-assignment of two elements onto an array that holds one.
C7_Witness ==
    /\ Returned("MoveAssign")
    /\ last.vec # last.other
    /\ SizeBefore(last.other) = 2
    /\ SizeBefore(last.vec) = 1
    /\ Before(last.other)[1] # Before(last.other)[2]

\* C8: a = a, a = std::move(a) and a.Swap(a) return and leave the arrays and
\* the heap as they were: nothing is constructed, assigned, destroyed,
\* allocated or freed.
C8_SelfAssignment ==
    (last.op \in {"CopyAssign", "MoveAssign", "Swap"} /\ last.vec = last.other) =>
        /\ status = "ok"
        /\ ~last.failed
        /\ Unchanged
        /\ last.log = <<>>
        /\ last.lost = {}

\* a = std::move(a) on an array of two elements.
C8_Witness ==
    /\ last.op = "MoveAssign"
    /\ last.vec = last.other
    /\ SizeBefore(last.vec) = 2
    /\ vecs[last.vec].size = 2

\* C9: PushBack and Insert whose argument refers to an element of the array
\* itself return with the array holding, at the position asked for, a copy of
\* the value that element had when the call started, and all former elements
\* in order around it, on the in-place path and on the reallocation path; no
\* raw memory is read, nothing is destroyed or freed twice, nothing is lost.
C9_AliasedArgument ==
    (last.op \in {"PushBack", "Insert"} /\ last.arg.kind = "ref"
         /\ last.k <= SizeBefore(Main)) =>
        /\ status = "ok"
        /\ ~last.failed
        /\ last.ub = {}
        /\ last.lost = {}
        /\ Now(Main) = InsertAt(Before(Main), last.k, ValueOf(last.pre.heap, last.arg))

\* An insert in place at the front, of a reference to the second element,
\* which the shift moves away before the new element is assigned.
C9_Witness ==
    /\ Returned("Insert")
    /\ last.arg.kind = "ref"
    /\ SizeBefore(Main) = 2
    /\ CapBefore(Main) > 2
    /\ last.k = 0
    /\ last.arg.off = 1
    /\ Before(Main)[1] # Before(Main)[2]
    /\ Before(Main)[2] \in Values

\* The smallest power of two that is at least n, from p on.
RECURSIVE PowerOfTwoFrom(_, _)
PowerOfTwoFrom(p, n) == IF p >= n THEN p ELSE PowerOfTwoFrom(2 * p, n)

\* C10: a PushBack or Insert that returns leaves the capacity at
\* max(1, 2 * size) when the array was full and as it was otherwise; after
\* N >= 1 pushes in a row onto a default-constructed array the capacity is
\* the smallest power of two that is at least N.
C10_GrowthPolicy ==
    /\ ((Returned("PushBack") \/ Returned("Insert")) /\ last.k <= SizeBefore(Main)) =>
           vecs[Main].cap =
               IF SizeBefore(Main) # CapBefore(Main) THEN CapBefore(Main)
               ELSE IF 2 * SizeBefore(Main) > 1 THEN 2 * SizeBefore(Main) ELSE 1
    /\ hist.streak >= 1 => vecs[Main].cap = PowerOfTwoFrom(1, hist.streak)

\* The third push in a row: the capacity goes from 2 to 4.
C10_Witness ==
    /\ Returned("PushBack")
    /\ hist.streak = 3
    /\ CapBefore(Main) = 2
    /\ vecs[Main].cap = 4

\* The events e of the last call at slot i of block b.
CountAt(e, b, i) ==
    Cardinality({j \in 1 .. Len(last.log) : last.log[j] = Ev(e, b, i)})

BufBefore(v) == last.pre.vecs[v].buf

\* C11: Reserve(n) with n <= Capacity() returns having done nothing; with
\* n > Capacity() a Reserve that returns leaves capacity n in a new block,
\* the size and the elements as they were, every element of the old block
\* destroyed once and the old block freed once.
C11_Reserve ==
    /\ (last.op = "Reserve" /\ last.k <= CapBefore(Main)) =>
           /\ status = "ok"
           /\ ~last.failed
           /\ Unchanged
           /\ last.log = <<>>
    /\ (Returned("Reserve") /\ last.k > CapBefore(Main)) =>
           /\ status = "ok"
           /\ vecs[Main].cap = last.k
           /\ vecs[Main].size = SizeBefore(Main)
           /\ Now(Main) = Before(Main)
           /\ vecs[Main].buf # BufBefore(Main)
           /\ Count("alloc") = 1
           /\ Count("destroy") = SizeBefore(Main)
           /\ \A i \in 0 .. SizeBefore(Main) - 1 : CountAt("destroy", BufBefore(Main), i) = 1
           /\ Count("free") = IF BufBefore(Main) = Null THEN 0 ELSE 1
           /\ BufBefore(Main) # Null =>
                  /\ CountAt("free", BufBefore(Main), 0) = 1
                  /\ ~heap[BufBefore(Main)].live
           /\ last.lost = {}

\* A Reserve that moves two different elements to a larger block.
C11_Witness ==
    /\ Returned("Reserve")
    /\ last.k > CapBefore(Main)
    /\ SizeBefore(Main) = 2
    /\ Before(Main)[1] # Before(Main)[2]
    /\ status = "ok"

\* C12: a Resize(n) that returns leaves size n.  For n <= size the elements
\* [n, size) are destroyed, each once and nothing else, and the elements
\* [0, n), the block and the capacity stay.  For n > size the elements
\* [0, size) stay, the slots [size, n) hold value-initialised elements, and the
\* capacity is n if n exceeded it and as it was otherwise.
C12_Resize ==
    Returned("Resize") =>
        /\ status = "ok"
        /\ vecs[Main].size = last.k
        /\ last.lost = {}
        /\ last.k <= SizeBefore(Main) =>
               /\ Now(Main) = SubSeq(Before(Main), 1, last.k)
               /\ Count("destroy") = SizeBefore(Main) - last.k
               /\ \A i \in last.k .. SizeBefore(Main) - 1 :
                      CountAt("destroy", BufBefore(Main), i) = 1
               /\ vecs[Main].cap = CapBefore(Main)
               /\ vecs[Main].buf = BufBefore(Main)
        /\ last.k > SizeBefore(Main) =>
               /\ Now(Main) = Before(Main) \o [i \in 1 .. last.k - SizeBefore(Main) |-> DefaultValue]
               /\ vecs[Main].cap = IF last.k > CapBefore(Main) THEN last.k ELSE CapBefore(Main)

\* A Resize of an array of one element, not a default one, to three, past
\* its capacity.
C12_Witness ==
    /\ Returned("Resize")
    /\ SizeBefore(Main) = 1
    /\ last.k = 3
    /\ CapBefore(Main) < 3
    /\ Before(Main)[1] \in Values \ {DefaultValue}
    /\ status = "ok"

\* The last call was an insert in place in front of an element, and it threw
\* before its local temp was built.
StagedTempFailed ==
    /\ last.op = "Insert"
    /\ last.failed
    /\ SizeBefore(Main) < CapBefore(Main)
    /\ last.k < SizeBefore(Main)
    /\ Count("construct") = 0

\* C13: when an insert in place in front of an element throws in the
\* construction of its local temp, the arrays and the heap are as they were,
\* and the call has destroyed nothing and freed nothing.
C13_StagedTempFailure ==
    StagedTempFailed =>
        /\ status = "ok"
        /\ Unchanged
        /\ Count("destroy") = 0
        /\ Count("free") = 0

\* The last call was a growth call that threw after it had allocated the new
\* block, which is the block of its first event.
GrowthFailedAfterAlloc == GrowthCall /\ last.failed /\ Count("alloc") = 1
NewBlock == last.log[1].blk

\* C14: when a growth call throws after the new block was allocated, the new
\* block has been freed, once, and every object constructed in it has been
\* destroyed, once: no object is lost with it.
C14_FailedGrowthCleansUp ==
    GrowthFailedAfterAlloc =>
        /\ status = "ok"
        /\ CountAt("free", NewBlock, 0) = 1
        /\ ~heap[NewBlock].live
        /\ \A j \in 1 .. Len(last.log) :
               CountAt("destroy", NewBlock, last.log[j].off)
                   = CountAt("construct", NewBlock, last.log[j].off)
        /\ last.lost = {}

\* The representation of the array v is sound: size within capacity, a block
\* of capacity slots exactly when the capacity is not 0, objects in the slots
\* [0, size) and none in [size, capacity), and the block held by v alone.
RepOk(v) ==
    LET r == vecs[v]
    IN r.alive =>
           /\ 0 <= r.size
           /\ r.size <= r.cap
           /\ (r.cap = 0) <=> (r.buf = Null)
           /\ r.buf # Null =>
                  /\ heap[r.buf].live
                  /\ Len(heap[r.buf].slots) = r.cap
                  /\ \A i \in 1 .. r.cap : (heap[r.buf].slots[i] # Raw) <=> (i <= r.size)
                  /\ \A x \in Vecs \ {v} : ~(vecs[x].alive /\ vecs[x].buf = r.buf)

\* C15: whenever the caller is between two calls, or a call has just returned
\* or thrown without undefined behaviour or a failed assert, every array's
\* representation is sound.
C15_Representation == status = "ok" => \A v \in Vecs : RepOk(v)

\* An erase has left Main with an element and a free slot behind it, while the
\* other array holds a block of its own.
C15_Witness ==
    /\ Returned("Erase")
    /\ status = "ok"
    /\ vecs[Main].size >= 1
    /\ vecs[Main].size < vecs[Main].cap
    /\ \E x \in Vecs \ {Main} : vecs[x].alive /\ vecs[x].size >= 1

\* The last call was one that needs no new block, made within its contract.
InPlaceCall ==
    \/ last.op = "PopBack" /\ SizeBefore(Main) > 0
    \/ last.op = "Erase" /\ last.k < SizeBefore(Main)
    \/ last.op \in {"Resize", "Reserve"} /\ last.k <= CapBefore(Main)
    \/ last.op = "PushBack" /\ SizeBefore(Main) < CapBefore(Main)
    \/ last.op = "Insert" /\ SizeBefore(Main) < CapBefore(Main) /\ last.k <= SizeBefore(Main)

\* The number of leading elements the last call does not move: those in front
\* of the position of an insert or erase, those that stay otherwise.
KeptInPlace ==
    IF last.op \in {"Insert", "Erase"} THEN last.k
    ELSE IF last.op = "PopBack" THEN SizeBefore(Main) - 1
    ELSE IF last.op = "Resize" /\ last.k < SizeBefore(Main) THEN last.k
    ELSE SizeBefore(Main)

\* The calls made on the elements of one array.
ElementCall ==
    last.op \in {"Reserve", "Resize", "PushBack", "PopBack", "Insert", "Erase", "Index"}

\* The last call returned, within its contract, having allocated and freed
\* nothing, with the capacity and the block as they were and every element it
\* does not move still in its slot with its value.
KeptBlock ==
    /\ status = "ok"
    /\ vecs[Main].cap = CapBefore(Main)
    /\ vecs[Main].buf = BufBefore(Main)
    /\ Count("alloc") = 0
    /\ Count("free") = 0
    /\ \A i \in 0 .. KeptInPlace - 1 :
           SlotAt(heap, Ptr(BufBefore(Main), i))
               = SlotAt(last.pre.heap, Ptr(BufBefore(Main), i))

\* C16 (as the code has it): PopBack, Erase, Resize and Reserve to at most
\* the capacity, and PushBack and Insert on an array that is not full, when
\* they return, keep the block; and a call on the elements of an array
\* (Reserve, Resize, PushBack, PopBack, Insert, Erase, operator[]) that leaves
\* it with another block leaves it with another capacity.
C16_NoReallocation ==
    /\ (InPlaceCall /\ ~last.failed) => KeptBlock
    /\ (ElementCall /\ status = "ok" /\ vecs[Main].buf # BufBefore(Main)) =>
           vecs[Main].cap # CapBefore(Main)

\* C16 (as the specification has it): the same, with any call at all that
\* leaves an array with another block leaving it with another capacity.
C16_OnlyCapacityChangeReplacesBlock ==
    /\ (InPlaceCall /\ ~last.failed) => KeptBlock
    /\ (last.op # "Idle" /\ status = "ok") =>
           \A x \in Vecs :
               (vecs[x].alive /\ last.pre.vecs[x].alive /\ vecs[x].buf # last.pre.vecs[x].buf)
                   => vecs[x].cap # last.pre.vecs[x].cap

\* A push onto an array of two different elements with room for more.
C16_Witness ==
    /\ Returned("PushBack")
    /\ SizeBefore(Main) = 2
    /\ CapBefore(Main) = 4
    /\ Before(Main)[1] # Before(Main)[2]
    /\ status = "ok"

\* C17: operator[] with an index that is not below Size(), the indices from
\* Size() up to Capacity() included, fails its assert, and so does PopBack on
\* an empty array.
C17_OutOfRangeAborts ==
    /\ (last.op = "Index" /\ last.k >= SizeBefore(Main)) => status = "abort"
    /\ (last.op = "PopBack" /\ SizeBefore(Main) = 0) => status = "abort"

\* C18: Erase at end() fails its assert with the arrays and the heap as they
\* were, nothing moved, nothing destroyed; Insert at any position up to end()
\* passes its assert.
C18_EraseRejectsEnd ==
    /\ (last.op = "Erase" /\ last.k = SizeBefore(Main)) =>
           /\ status = "abort"
           /\ Unchanged
           /\ last.log = <<>>
    /\ (last.op = "Insert" /\ last.k <= SizeBefore(Main)) => status # "abort"

\* The last call was a growth call that asked for a new block.
Growing == GrowthCall /\ (last.op = "Reserve" => last.k > CapBefore(Main))

\* Event j of the last call is a construction in the new block, and event j
\* is a write to what the array had: an element of the old block destroyed,
\* the blocks swapped, or the old block freed.
BuildsAt(j) == last.log[j].e = "construct" /\ last.log[j].blk = NewBlock
CommitsAt(j) ==
    \/ last.log[j].e \in {"destroy", "free"} /\ last.log[j].blk = BufBefore(Main)
    \/ last.log[j].e = "swap"

\* C19: in every growth call the first event is the allocation of the new
\* block; in PushBack and Insert the first object constructed there, right
\* after the allocation, is the new element in its final slot; an element of the old block is destroyed
\* and the blocks are swapped only when all size (for Reserve) or size + 1
\* objects stand in the new block, and nothing is constructed after that; the
\* swap comes after every destruction, and only the release of the old block
\* follows it.
C19_CommitOrdering ==
    (Growing /\ last.log # <<>>) =>
        /\ last.log[1] = Ev("alloc", NewBlock, 0)
        /\ Count("alloc") = 1
        /\ (last.op # "Reserve" /\ \E j \in 1 .. Len(last.log) : BuildsAt(j)) =>
               last.log[2] = Ev("construct", NewBlock, last.k)
        /\ \A j \in 1 .. Len(last.log) :
               CommitsAt(j) =>
                   /\ Cardinality({i \in 1 .. j : BuildsAt(i)})
                          = SizeBefore(Main) + (IF last.op = "Reserve" THEN 0 ELSE 1)
                   /\ \A i \in j .. Len(last.log) : ~BuildsAt(i)
                   /\ \A i \in 1 .. j : last.log[i].e # "destroy" \/ last.log[i].blk # NewBlock
        /\ \A j \in 1 .. Len(last.log) :
               last.log[j].e = "swap" =>
                   /\ \A i \in j + 1 .. Len(last.log) :
                          last.log[i] = Ev("free", BufBefore(Main), 0)
                   /\ Cardinality({i \in 1 .. j : last.log[i].e = "destroy"}) = SizeBefore(Main)
                   /\ ~last.failed
        /\ \A j \in 1 .. Len(last.log) :
               last.log[j] = Ev("free", BufBefore(Main), 0) =>
                   \E i \in 1 .. j - 1 : last.log[i].e = "swap"

\* An insert into the middle of a full array of two elements: allocation,
\* the new element, two relocations, two destructions, the swap, the release.
C19_Witness ==
    /\ Returned("Insert")
    /\ SizeBefore(Main) = 2
    /\ CapBefore(Main) = 2
    /\ last.k = 1
    /\ Len(last.log) = 8

\* C20: every deallocation of every call, of those that throw too, is of the
\* start of a block that is allocated, and of no block an array still holds
\* when the call is over.
C20_DeallocationTargets ==
    /\ \A j \in 1 .. Len(last.log) : last.log[j].e = "free" => last.log[j].off = 0
    /\ last.ub \cap {"invalid_free", "dangling_block"} = {}

=============================================================================
